---- MODULE Spec2Model ----
(***************************************************************************)
(* The persistence services of the to-do application:                      *)
(*   app/todo_service.py  (Todo rows: title, description, completed,       *)
(*                         created_at, updated_at)                         *)
(*   app/task_service.py  (Task rows: title, completed, created_at)        *)
(* Every service call opens its own session, reads or writes one table and *)
(* commits before it returns, so one call is one atomic step.              *)
(***************************************************************************)
EXTENDS Integers, Sequences, FiniteSets, TLC

\* ---------------------------------------------------------------- bounds
\* number of rows the id sequence of a table hands out in one run
MaxTodos == 2
\* number of rows the id sequence of the Task table hands out in one run
MaxTasks == 3
\* last instant of the clock; the clock may stand still between two reads
MaxClock == 1

\* ------------------------------------------------------- Optional values
\* Python's Optional[X]: None is the empty tuple, a present value v is <<v>>
None == <<>>
Some(v) == <<v>>

Titles == {"", "T1"}
Descriptions == {"D1"}
OptTitles == {None} \cup {Some(s) : s \in Titles}
OptDescriptions == {None} \cup {Some(s) : s \in Descriptions}
OptBools == {None, Some(TRUE), Some(FALSE)}

\* ids a caller may pass: every id the sequence can hand out and one it never does
Ids == 1..(MaxTodos + 1)
Instants == 0..MaxClock

\* ---------------------------------------------------------------- models
\* app/models.py: the transient input shapes
TodoCreate == [title : Titles, description : OptDescriptions]
TodoUpdate == [title : OptTitles, description : OptDescriptions, completed : OptBools]

\* the Task variant's input shapes: a title; an optional title and completed
TaskCreate == [title : Titles]
TaskUpdate == [title : OptTitles, completed : OptBools]
TaskIds == 1..(MaxTasks + 1)

VARIABLES
    todos,      \* the rows of table "todos"
    todo_seq,   \* the next id the storage engine assigns in table "todos"
    tasks,      \* the rows of the Task table
    task_seq,   \* the next id the storage engine assigns in the Task table
    now,        \* the last instant datetime.utcnow() returned
    sessions,   \* per database session: how far its update or toggle call got
    commits,    \* the sessions that committed, in the order of their commits
    shown,      \* the ids of the cards the page drew at its last refresh_todos
    dialog,     \* the dialog the page has open, with the handler awaiting it
    notify      \* the text of the last ui.notify of the page

race_vars == <<sessions, commits>>
page_vars == <<shown, dialog, notify>>
vars == <<todos, todo_seq, tasks, task_seq, now, sessions, commits, shown, dialog, notify>>

\* ------------------------------------------------------------- the store
\* the primary keys in a table
ids(rows) == {r.id : r \in rows}

\* session.get(Model, id): the row with that primary key, or None
session_get(rows, id) ==
    IF \E r \in rows : r.id = id
    THEN Some(CHOOSE r \in rows : r.id = id)
    ELSE None

\* ORDER BY desc(key): every order of the rows in which the column key never
\* increases; rows with equal keys come in an order the engine chooses
OrderByDesc(rows, key) ==
    {s \in [1..Cardinality(rows) -> rows] :
        /\ \A i, j \in 1..Cardinality(rows) : i # j => s[i] # s[j]
        /\ \A i, j \in 1..Cardinality(rows) : i < j => s[i][key] >= s[j][key]}

\* -------------------------------------------------- app/todo_service.py
\* each operator gives the table after the call and the value returned

\* mutant: the id is taken from the number of rows instead of the sequence
CreateTodo_id_by_count(rows, new_id, todo_data, t1, t2) ==
    LET todo == [id |-> Cardinality(rows) + 1,
                 title |-> todo_data.title,
                 description |-> todo_data.description,
                 completed |-> FALSE,
                 created_at |-> t1,
                 updated_at |-> t2]
    IN [rows |-> rows \cup {todo}, ret |-> todo]

\* mutant: the two instants are stored in each other's column
CreateTodo_swapped_stamps(rows, new_id, todo_data, t1, t2) ==
    LET todo == [id |-> new_id,
                 title |-> todo_data.title,
                 description |-> todo_data.description,
                 completed |-> FALSE,
                 created_at |-> t2,
                 updated_at |-> t1]
    IN [rows |-> rows \cup {todo}, ret |-> todo]

CreateTodo(rows, new_id, todo_data, t1, t2) ==
    LET todo == [id |-> new_id,
                 title |-> todo_data.title,
                 description |-> todo_data.description,
                 completed |-> FALSE,
                 created_at |-> t1,
                 updated_at |-> t2]
    IN [rows |-> rows \cup {todo}, ret |-> todo]

GetAllTodos(rows) == OrderByDesc(rows, "created_at")

GetTodo(rows, todo_id) == session_get(rows, todo_id)

\* mutant: completed is assigned whether or not the input carries it
UpdateTodo_completed_always(rows, todo_id, todo_data, t) ==
    LET got == session_get(rows, todo_id) IN
    IF got = None
    THEN [rows |-> rows, ret |-> None]
    ELSE LET todo == got[1]
             a == IF todo_data.title # None
                  THEN [todo EXCEPT !.title = todo_data.title[1]] ELSE todo
             b == IF todo_data.description # None
                  THEN [a EXCEPT !.description = todo_data.description] ELSE a
             c == [b EXCEPT !.completed = (todo_data.completed = Some(TRUE))]
             d == [c EXCEPT !.updated_at = t]
         IN [rows |-> (rows \ {todo}) \cup {d}, ret |-> Some(d)]

\* mutant: an id that is not stored gets a row made from the input
UpdateTodo_upsert(rows, todo_id, todo_data, t) ==
    LET got == session_get(rows, todo_id)
        todo == IF got = None
                THEN [id |-> todo_id, title |-> "", description |-> None,
                      completed |-> FALSE, created_at |-> t, updated_at |-> t]
                ELSE got[1]
        a == IF todo_data.title # None
             THEN [todo EXCEPT !.title = todo_data.title[1]] ELSE todo
        b == IF todo_data.description # None
             THEN [a EXCEPT !.description = todo_data.description] ELSE a
        c == IF todo_data.completed # None
             THEN [b EXCEPT !.completed = todo_data.completed[1]] ELSE b
        d == [c EXCEPT !.updated_at = t]
    IN [rows |-> (rows \ {todo}) \cup {d}, ret |-> Some(d)]

\* mutant: updated_at is not refreshed
UpdateTodo_no_stamp(rows, todo_id, todo_data, t) ==
    LET got == session_get(rows, todo_id) IN
    IF got = None
    THEN [rows |-> rows, ret |-> None]
    ELSE LET todo == got[1]
             a == IF todo_data.title # None
                  THEN [todo EXCEPT !.title = todo_data.title[1]] ELSE todo
             b == IF todo_data.description # None
                  THEN [a EXCEPT !.description = todo_data.description] ELSE a
             c == IF todo_data.completed # None
                  THEN [b EXCEPT !.completed = todo_data.completed[1]] ELSE b
         IN [rows |-> (rows \ {todo}) \cup {c}, ret |-> Some(c)]

\* mutant: the description is assigned whether or not the input carries it
UpdateTodo_description_always(rows, todo_id, todo_data, t) ==
    LET got == session_get(rows, todo_id) IN
    IF got = None
    THEN [rows |-> rows, ret |-> None]
    ELSE LET todo == got[1]
             a == IF todo_data.title # None
                  THEN [todo EXCEPT !.title = todo_data.title[1]] ELSE todo
             b == [a EXCEPT !.description = todo_data.description]
             c == IF todo_data.completed # None
                  THEN [b EXCEPT !.completed = todo_data.completed[1]] ELSE b
             d == [c EXCEPT !.updated_at = t]
         IN [rows |-> (rows \ {todo}) \cup {d}, ret |-> Some(d)]

UpdateTodo(rows, todo_id, todo_data, t) ==
    LET got == session_get(rows, todo_id) IN
    IF got = None
    THEN [rows |-> rows, ret |-> None]
    ELSE LET todo == got[1]
             a == IF todo_data.title # None
                  THEN [todo EXCEPT !.title = todo_data.title[1]] ELSE todo
             b == IF todo_data.description # None
                  THEN [a EXCEPT !.description = todo_data.description] ELSE a
             c == IF todo_data.completed # None
                  THEN [b EXCEPT !.completed = todo_data.completed[1]] ELSE b
             d == [c EXCEPT !.updated_at = t]
         IN [rows |-> (rows \ {todo}) \cup {d}, ret |-> Some(d)]

\* mutant: the item is marked completed instead of being toggled
ToggleTodoCompletion_mark_done(rows, todo_id, t) ==
    LET got == session_get(rows, todo_id) IN
    IF got = None
    THEN [rows |-> rows, ret |-> None]
    ELSE LET todo == got[1]
             d == [todo EXCEPT !.completed = TRUE, !.updated_at = t]
         IN [rows |-> (rows \ {todo}) \cup {d}, ret |-> Some(d)]

\* mutant: the instant is written to created_at as well
ToggleTodoCompletion_restamp(rows, todo_id, t) ==
    LET got == session_get(rows, todo_id) IN
    IF got = None
    THEN [rows |-> rows, ret |-> None]
    ELSE LET todo == got[1]
             d == [todo EXCEPT !.completed = ~todo.completed,
                               !.created_at = t, !.updated_at = t]
         IN [rows |-> (rows \ {todo}) \cup {d}, ret |-> Some(d)]

ToggleTodoCompletion(rows, todo_id, t) ==
    LET got == session_get(rows, todo_id) IN
    IF got = None
    THEN [rows |-> rows, ret |-> None]
    ELSE LET todo == got[1]
             d == [todo EXCEPT !.completed = ~todo.completed, !.updated_at = t]
         IN [rows |-> (rows \ {todo}) \cup {d}, ret |-> Some(d)]

\* mutant: true is returned also when no row has the id
DeleteTodo_always_true(rows, todo_id) ==
    LET got == session_get(rows, todo_id) IN
    IF got = None
    THEN [rows |-> rows, ret |-> TRUE]
    ELSE [rows |-> rows \ {got[1]}, ret |-> TRUE]

DeleteTodo(rows, todo_id) ==
    LET got == session_get(rows, todo_id) IN
    IF got = None
    THEN [rows |-> rows, ret |-> FALSE]
    ELSE [rows |-> rows \ {got[1]}, ret |-> TRUE]

\* mutant: the completed items are ordered by created_at
GetCompletedTodos_by_created(rows) ==
    OrderByDesc({r \in rows : r.completed}, "created_at")

GetCompletedTodos(rows) ==
    OrderByDesc({r \in rows : r.completed}, "updated_at")

\* mutant: the where clause is missing
GetPendingTodos_unfiltered(rows) ==
    OrderByDesc(rows, "created_at")

GetPendingTodos(rows) ==
    OrderByDesc({r \in rows : ~r.completed}, "created_at")

\* -------------------------------------------------- app/task_service.py
\* Task(title=...): completed defaults to False, created_at to the instant
\* of construction; the id is assigned on insert
Task(new_id, title, t) ==
    [id |-> new_id, title |-> title, completed |-> FALSE, created_at |-> t]

\* mutant: the id is one more than the largest stored id
CreateTask_id_after_max(rows, new_id, task_data, t) ==
    LET top == IF rows = {} THEN 0
               ELSE CHOOSE n \in ids(rows) : \A m \in ids(rows) : m <= n
        task == Task(top + 1, task_data.title, t)
    IN [rows |-> rows \cup {task}, ret |-> task]

\* mutant: an empty title is replaced by a default one
CreateTask_default_title(rows, new_id, task_data, t) ==
    LET task == Task(new_id, IF task_data.title = "" THEN "T1" ELSE task_data.title, t)
    IN [rows |-> rows \cup {task}, ret |-> task]

CreateTask(rows, new_id, task_data, t) ==
    LET task == Task(new_id, task_data.title, t)
    IN [rows |-> rows \cup {task}, ret |-> task]

GetAllTasks(rows) == OrderByDesc(rows, "created_at")

GetTaskById(rows, task_id) == session_get(rows, task_id)

UpdateTask(rows, task_id, task_update) ==
    LET got == session_get(rows, task_id) IN
    IF got = None
    THEN [rows |-> rows, ret |-> None]
    ELSE LET task == got[1]
             a == IF task_update.title # None
                  THEN [task EXCEPT !.title = task_update.title[1]] ELSE task
             b == IF task_update.completed # None
                  THEN [a EXCEPT !.completed = task_update.completed[1]] ELSE a
         IN [rows |-> (rows \ {task}) \cup {b}, ret |-> Some(b)]

ToggleTaskCompletion(rows, task_id) ==
    LET got == session_get(rows, task_id) IN
    IF got = None
    THEN [rows |-> rows, ret |-> None]
    ELSE LET task == got[1]
             b == [task EXCEPT !.completed = ~task.completed]
         IN [rows |-> (rows \ {task}) \cup {b}, ret |-> Some(b)]

\* mutant: the delete is not restricted to the row that was read
DeleteTask_all_rows(rows, task_id) ==
    LET got == session_get(rows, task_id) IN
    IF got = None
    THEN [rows |-> rows, ret |-> FALSE]
    ELSE [rows |-> {}, ret |-> TRUE]

DeleteTask(rows, task_id) ==
    LET got == session_get(rows, task_id) IN
    IF got = None
    THEN [rows |-> rows, ret |-> FALSE]
    ELSE [rows |-> rows \ {got[1]}, ret |-> TRUE]

\* mutant: pending is not reduced by the completed ones
TaskStats_pending_total(task_list) ==
    LET total == Len(task_list)
        completed == Cardinality({i \in 1..Len(task_list) : task_list[i].completed})
        pending == total
    IN [total |-> total, completed |-> completed, pending |-> pending]

\* the counts over one result of get_all_tasks
TaskStats(task_list) ==
    LET total == Len(task_list)
        completed == Cardinality({i \in 1..Len(task_list) : task_list[i].completed})
        pending == total - completed
    IN [total |-> total, completed |-> completed, pending |-> pending]

\* get_task_stats: the counts over whichever order get_all_tasks returned
GetTaskStats(rows) == {TaskStats(task_list) : task_list \in GetAllTasks(rows)}

\* ------------------------------------- update_todo in concurrent sessions
\* the database sessions that run one call each
Sessions == {"s1", "s2"}

Columns == {"id", "title", "description", "completed", "created_at", "updated_at"}

\* a session that has not called anything yet
NoCall ==
    [pc |-> "idle", loaded |-> None, todo |-> None, assigned |-> {},
     error |-> FALSE]

\* the attributes update_todo assigns for the partial set todo_data
Assigned(todo_data) ==
    {"updated_at"}
    \cup (IF todo_data.title # None THEN {"title"} ELSE {})
    \cup (IF todo_data.description # None THEN {"description"} ELSE {})
    \cup (IF todo_data.completed # None THEN {"completed"} ELSE {})

\* mutant: the commit writes every column of the session's object
session_commit_whole_row(rows, loaded, todo) ==
    LET got == session_get(rows, todo.id) IN
    IF got = None
    THEN [rows |-> rows, error |-> TRUE]
    ELSE [rows |-> (rows \ {got[1]}) \cup {todo}, error |-> FALSE]

\* session.add(todo); session.commit(): the unit of work issues
\* UPDATE ... SET <the columns whose value differs from the loaded one>
\* WHERE id = todo.id; an UPDATE that matches no row is an error
session_commit(rows, loaded, todo) ==
    LET got == session_get(rows, todo.id) IN
    IF got = None
    THEN [rows |-> rows, error |-> TRUE]
    ELSE LET stored == got[1]
             written == [id |-> stored.id,
                         title |-> IF todo.title # loaded.title
                                   THEN todo.title ELSE stored.title,
                         description |-> IF todo.description # loaded.description
                                         THEN todo.description ELSE stored.description,
                         completed |-> IF todo.completed # loaded.completed
                                       THEN todo.completed ELSE stored.completed,
                         created_at |-> IF todo.created_at # loaded.created_at
                                        THEN todo.created_at ELSE stored.created_at,
                         updated_at |-> IF todo.updated_at # loaded.updated_at
                                        THEN todo.updated_at ELSE stored.updated_at]
         IN [rows |-> (rows \ {stored}) \cup {written}, error |-> FALSE]

\* ---------------------------------------------------- app/todo_app.py
\* the value of an input element is a sequence of characters
RawTitles == {<<>>, <<" ">>, <<"T", "1">>, <<" ", "T", "1", " ">>}
RawDescriptions == {<<>>, <<" ">>, <<"D", "1">>}

\* str.strip(): the value without the white space at its two ends
RECURSIVE strip(_)
strip(value) ==
    IF value = <<>> THEN value
    ELSE IF Head(value) = " " THEN strip(Tail(value))
    ELSE IF value[Len(value)] = " " THEN strip(SubSeq(value, 1, Len(value) - 1))
    ELSE value

\* the string a value stands for
RECURSIVE str(_)
str(value) == IF value = <<>> THEN "" ELSE Head(value) \o str(Tail(value))

\* the value an input element shows for a string
chars(text) == CHOOSE value \in RawTitles \cup RawDescriptions : str(value) = text

\* x.strip() or None
strip_or_None(value) ==
    IF Len(strip(value)) = 0 THEN None ELSE Some(str(strip(value)))

\* ui.notify has not been called yet
NoNotification == ""

\* no dialog is open
NoDialog ==
    [kind |-> "none", todo_id |-> 0, edit_title |-> <<>>,
     edit_description |-> <<>>, result |-> "open"]

DeleteDialog(todo_id) ==
    [kind |-> "delete", todo_id |-> todo_id, edit_title |-> <<>>,
     edit_description |-> <<>>, result |-> "open"]

EditDialog(current_todo) ==
    [kind |-> "edit", todo_id |-> current_todo.id,
     edit_title |-> chars(current_todo.title),
     edit_description |-> IF current_todo.description = None THEN <<>>
                          ELSE chars(current_todo.description[1]),
     result |-> "open"]

\* mutant: the title is taken as typed
HandleAdd_no_strip(rows, new_id, title_value, description_value, t1, t2) ==
    LET title == title_value IN
    IF Len(title) = 0
    THEN [rows |-> rows, called |-> FALSE, notify |-> "Please enter a task title"]
    ELSE LET todo_data == [title |-> str(title),
                           description |-> strip_or_None(description_value)]
         IN [rows |-> CreateTodo(rows, new_id, todo_data, t1, t2).rows,
             called |-> TRUE, notify |-> "Task added successfully!"]

\* handle_add: the table afterwards, whether create_todo was called, and
\* the notification
HandleAdd(rows, new_id, title_value, description_value, t1, t2) ==
    LET title == strip(title_value) IN
    IF Len(title) = 0
    THEN [rows |-> rows, called |-> FALSE, notify |-> "Please enter a task title"]
    ELSE LET todo_data == [title |-> str(title),
                           description |-> strip_or_None(description_value)]
         IN [rows |-> CreateTodo(rows, new_id, todo_data, t1, t2).rows,
             called |-> TRUE, notify |-> "Task added successfully!"]

\* handle_toggle
HandleToggle(rows, todo_id, t) ==
    LET r == ToggleTodoCompletion(rows, todo_id, t) IN
    IF r.ret # None
    THEN [rows |-> r.rows, found |-> TRUE,
          notify |-> IF r.ret[1].completed THEN "Task completed!"
                     ELSE "Task marked as pending!"]
    ELSE [rows |-> r.rows, found |-> FALSE, notify |-> "Task not found"]

\* mutant: every answer of the dialog counts as a confirmation
HandleDeleteAnswered_any_answer(rows, todo_id, result, last_notify) ==
    IF result \in {"Yes", "No"}
    THEN LET r == DeleteTodo(rows, todo_id) IN
         [rows |-> r.rows, called |-> TRUE, found |-> r.ret,
          notify |-> IF r.ret THEN "Task deleted successfully!" ELSE "Task not found"]
    ELSE [rows |-> rows, called |-> FALSE, found |-> FALSE, notify |-> last_notify]

\* handle_delete from the answer of the dialog on
HandleDeleteAnswered(rows, todo_id, result, last_notify) ==
    IF result = "Yes"
    THEN LET r == DeleteTodo(rows, todo_id) IN
         [rows |-> r.rows, called |-> TRUE, found |-> r.ret,
          notify |-> IF r.ret THEN "Task deleted successfully!" ELSE "Task not found"]
    ELSE [rows |-> rows, called |-> FALSE, found |-> FALSE, notify |-> last_notify]

\* handle_edit from the closing of the dialog on
HandleEditClosed(rows, todo_id, save_clicked, title_value, description_value, t, last_notify) ==
    IF ~save_clicked
    THEN [rows |-> rows, called |-> FALSE, found |-> FALSE, notify |-> last_notify]
    ELSE LET new_title == strip(title_value) IN
         IF Len(new_title) = 0
         THEN [rows |-> rows, called |-> FALSE, found |-> FALSE,
               notify |-> "Title cannot be empty"]
         ELSE LET update_data == [title |-> Some(str(new_title)),
                                  description |-> strip_or_None(description_value),
                                  completed |-> None]
                  r == UpdateTodo(rows, todo_id, update_data, t)
              IN [rows |-> r.rows, called |-> TRUE, found |-> r.ret # None,
                  notify |-> IF r.ret # None THEN "Task updated successfully!"
                             ELSE "Error updating task"]

\* ---------------------------------------------------------------- actions
\* the storage engine's auto-increment: the id after the one just assigned
autoincrement(seq) == seq + 1

\* datetime.utcnow(): an instant not before the last one read
utcnow_upto(last) == now..last
utcnow == utcnow_upto(MaxClock)

Init ==
    /\ todos = {}
    /\ todo_seq = 1
    /\ tasks = {}
    /\ task_seq = 1
    /\ now = 0
    /\ sessions = [s \in Sessions |-> NoCall]
    /\ commits = <<>>
    /\ shown = {}
    /\ dialog = NoDialog
    /\ notify = NoNotification

\* create_todo while the id sequence has handed out fewer than n ids and the
\* clock has not passed the instant last
create_todo_upto(n, last) ==
    /\ todo_seq <= n
    /\ \E todo_data \in TodoCreate, t1 \in utcnow_upto(last) :
       \E t2 \in t1..last :
          LET r == CreateTodo(todos, todo_seq, todo_data, t1, t2) IN
          /\ todos' = r.rows
          /\ todo_seq' = autoincrement(todo_seq)
          /\ now' = t2
    /\ UNCHANGED <<tasks, task_seq, race_vars, page_vars>>

\* The two services share no table, only the clock: a run exercises one of
\* them, so a table gets its first row only while the other one is unused.
create_todo ==
    /\ task_seq = 1
    /\ create_todo_upto(MaxTodos, MaxClock)

\* the queries read the table and change nothing
get_all_todos ==
    /\ GetAllTodos(todos) # {}
    /\ UNCHANGED vars

get_todo ==
    /\ \E todo_id \in Ids : GetTodo(todos, todo_id) \in {None} \cup {Some(r) : r \in todos}
    /\ UNCHANGED vars

update_todo ==
    /\ \E todo_id \in Ids, todo_data \in TodoUpdate, t \in utcnow :
          LET r == UpdateTodo(todos, todo_id, todo_data, t) IN
          /\ todos' = r.rows
          /\ now' = IF r.ret = None THEN now ELSE t
    /\ UNCHANGED <<todo_seq, tasks, task_seq, race_vars, page_vars>>

toggle_todo_completion ==
    /\ \E todo_id \in Ids, t \in utcnow :
          LET r == ToggleTodoCompletion(todos, todo_id, t) IN
          /\ todos' = r.rows
          /\ now' = IF r.ret = None THEN now ELSE t
    /\ UNCHANGED <<todo_seq, tasks, task_seq, race_vars, page_vars>>

delete_todo ==
    /\ \E todo_id \in Ids : todos' = DeleteTodo(todos, todo_id).rows
    /\ UNCHANGED <<todo_seq, tasks, task_seq, now, race_vars, page_vars>>

get_completed_todos ==
    /\ GetCompletedTodos(todos) # {}
    /\ UNCHANGED vars

get_pending_todos ==
    /\ GetPendingTodos(todos) # {}
    /\ UNCHANGED vars


\* ------------------------------------------------- TaskService's calls
\* create_task while the id sequence has handed out fewer than n ids and the
\* clock has not passed the instant last
create_task_upto(n, last) ==
    /\ task_seq <= n
    /\ \E task_data \in TaskCreate, t \in utcnow_upto(last) :
          LET r == CreateTask(tasks, task_seq, task_data, t) IN
          /\ tasks' = r.rows
          /\ task_seq' = autoincrement(task_seq)
          /\ now' = t
    /\ UNCHANGED <<todos, todo_seq, race_vars, page_vars>>

create_task ==
    /\ todo_seq = 1
    /\ create_task_upto(MaxTasks, MaxClock)

get_all_tasks ==
    /\ GetAllTasks(tasks) # {}
    /\ UNCHANGED vars

get_task_by_id ==
    /\ \E task_id \in TaskIds :
          GetTaskById(tasks, task_id) \in {None} \cup {Some(r) : r \in tasks}
    /\ UNCHANGED vars

update_task ==
    /\ \E task_id \in TaskIds, task_update \in TaskUpdate :
          tasks' = UpdateTask(tasks, task_id, task_update).rows
    /\ UNCHANGED <<todos, todo_seq, task_seq, now, race_vars, page_vars>>

toggle_task_completion ==
    /\ \E task_id \in TaskIds : tasks' = ToggleTaskCompletion(tasks, task_id).rows
    /\ UNCHANGED <<todos, todo_seq, task_seq, now, race_vars, page_vars>>

delete_task ==
    /\ \E task_id \in TaskIds : tasks' = DeleteTask(tasks, task_id).rows
    /\ UNCHANGED <<todos, todo_seq, task_seq, now, race_vars, page_vars>>

get_task_stats ==
    /\ GetTaskStats(tasks) # {}
    /\ UNCHANGED vars

Next ==
    \/ create_todo
    \/ get_all_todos
    \/ get_todo
    \/ update_todo
    \/ toggle_todo_completion
    \/ delete_todo
    \/ get_completed_todos
    \/ get_pending_todos
    \/ create_task
    \/ get_all_tasks
    \/ get_task_by_id
    \/ update_task
    \/ toggle_task_completion
    \/ delete_task
    \/ get_task_stats

Spec == Init /\ [][Next]_vars

\* The scenario of test_get_all_todos_with_items: three items are created
\* one after the other, nothing else is called, and the list is read.
ScenarioTodos == 3
\* last instant of the scenario's clock: every create can have its own instant
ScenarioClock == 2

ABCNext ==
    \/ create_todo_upto(ScenarioTodos, ScenarioClock)
    \/ get_all_todos

ABCSpec == Init /\ [][ABCNext]_vars

\* The scenario of test_multiple_operations_sequence: three tasks are created
\* one after the other, some are toggled or updated, and the list and the
\* counts are read; nothing is deleted.
ScenarioTasks == 3

T123Next ==
    \/ create_task_upto(ScenarioTasks, ScenarioClock)
    \/ toggle_task_completion
    \/ update_task
    \/ get_all_tasks
    \/ get_task_stats

T123Spec == Init /\ [][T123Next]_vars

\* ------------------------------------------------ two sessions, one row
\* the one row the two calls address
RaceTodos == 1

\* update_todo up to session.add: the row is read, the attributes are
\* assigned on the session's object and the clock is read
update_todo_get(s) ==
    /\ sessions[s].pc = "idle"
    /\ \E todo_id \in Ids, todo_data \in TodoUpdate, t \in utcnow :
          LET got == session_get(todos, todo_id) IN
          IF got = None
          THEN /\ sessions' = [sessions EXCEPT ![s].pc = "returned"]
               /\ now' = now
          ELSE /\ sessions' = [sessions EXCEPT ![s] =
                     [pc |-> "dirty", loaded |-> got,
                      todo |-> UpdateTodo(todos, todo_id, todo_data, t).ret,
                      assigned |-> Assigned(todo_data),
                      error |-> FALSE]]
               /\ now' = t
    /\ UNCHANGED <<todos, todo_seq, tasks, task_seq, commits, page_vars>>

\* toggle_todo_completion up to session.add
toggle_todo_completion_get(s) ==
    /\ sessions[s].pc = "idle"
    /\ \E todo_id \in Ids, t \in utcnow :
          LET got == session_get(todos, todo_id) IN
          IF got = None
          THEN /\ sessions' = [sessions EXCEPT ![s].pc = "returned"]
               /\ now' = now
          ELSE /\ sessions' = [sessions EXCEPT ![s] =
                     [pc |-> "dirty", loaded |-> got,
                      todo |-> ToggleTodoCompletion(todos, todo_id, t).ret,
                      assigned |-> {"completed", "updated_at"},
                      error |-> FALSE]]
               /\ now' = t
    /\ UNCHANGED <<todos, todo_seq, tasks, task_seq, commits, page_vars>>

\* session.commit() of either call
commit(s) ==
    /\ sessions[s].pc = "dirty"
    /\ LET r == session_commit(todos, sessions[s].loaded[1], sessions[s].todo[1]) IN
       /\ todos' = r.rows
       /\ sessions' = [sessions EXCEPT ![s].pc = "committed", ![s].error = r.error]
    /\ commits' = Append(commits, s)
    /\ UNCHANGED <<todo_seq, tasks, task_seq, now, page_vars>>

\* session.refresh(todo) and the return of either call: the row is read
\* again, and a row that is gone is an error
refresh(s) ==
    /\ sessions[s].pc = "committed"
    /\ sessions' = [sessions EXCEPT
                       ![s].pc = "returned",
                       ![s].error = @ \/ session_get(todos, sessions[s].todo[1].id) = None]
    /\ UNCHANGED <<todos, todo_seq, tasks, task_seq, now, commits, page_vars>>

RaceNext ==
    \/ create_todo_upto(RaceTodos, MaxClock)
    \/ \E s \in Sessions : update_todo_get(s)
    \/ \E s \in Sessions : toggle_todo_completion_get(s)
    \/ \E s \in Sessions : commit(s)
    \/ \E s \in Sessions : refresh(s)

RaceSpec == Init /\ [][RaceNext]_vars

\* ------------------------------------------------------- the page "/"
\* the items one page session adds
PageTodos == 1

\* refresh_todos(): a card with its buttons for every stored item
refresh_todos(rows) == ids(rows)

handle_add ==
    /\ dialog.kind = "none"
    /\ \E title_value \in RawTitles, description_value \in RawDescriptions,
          t1 \in utcnow :
       \E t2 \in t1..MaxClock :
          LET r == HandleAdd(todos, todo_seq, title_value, description_value, t1, t2) IN
          /\ r.called => todo_seq <= PageTodos
          /\ todos' = r.rows
          /\ todo_seq' = IF r.called THEN autoincrement(todo_seq) ELSE todo_seq
          /\ now' = IF r.called THEN t2 ELSE now
          /\ shown' = IF r.called THEN refresh_todos(r.rows) ELSE shown
          /\ notify' = r.notify
    /\ UNCHANGED <<tasks, task_seq, race_vars, dialog>>

handle_toggle ==
    /\ dialog.kind = "none"
    /\ \E todo_id \in shown, t \in utcnow :
          LET r == HandleToggle(todos, todo_id, t) IN
          /\ todos' = r.rows
          /\ now' = IF r.found THEN t ELSE now
          /\ shown' = IF r.found THEN refresh_todos(r.rows) ELSE shown
          /\ notify' = r.notify
    /\ UNCHANGED <<todo_seq, tasks, task_seq, race_vars, dialog>>

\* handle_delete up to "await delete_dialog"
handle_delete ==
    /\ dialog.kind = "none"
    /\ \E todo_id \in shown : dialog' = DeleteDialog(todo_id)
    /\ UNCHANGED <<todos, todo_seq, tasks, task_seq, now, race_vars, shown, notify>>

\* a button of the delete dialog is clicked, or the dialog is dismissed
delete_dialog_submit ==
    /\ dialog.kind = "delete"
    /\ dialog.result = "open"
    /\ \E result \in {"Yes", "No", "dismissed"} :
          dialog' = [dialog EXCEPT !.result = result]
    /\ UNCHANGED <<todos, todo_seq, tasks, task_seq, now, race_vars, shown, notify>>

\* handle_delete after "await delete_dialog"
handle_delete_answered ==
    /\ dialog.kind = "delete"
    /\ dialog.result # "open"
    /\ LET r == HandleDeleteAnswered(todos, dialog.todo_id, dialog.result, notify) IN
       /\ todos' = r.rows
       /\ shown' = IF r.found THEN refresh_todos(r.rows) ELSE shown
       /\ notify' = r.notify
    /\ dialog' = NoDialog
    /\ UNCHANGED <<todo_seq, tasks, task_seq, now, race_vars>>

\* handle_edit up to "await dialog"
handle_edit ==
    /\ dialog.kind = "none"
    /\ \E todo_id \in shown :
          LET current_todo == GetTodo(todos, todo_id) IN
          IF current_todo = None
          THEN /\ notify' = "Task not found"
               /\ dialog' = dialog
          ELSE /\ notify' = notify
               /\ dialog' = EditDialog(current_todo[1])
    /\ UNCHANGED <<todos, todo_seq, tasks, task_seq, now, race_vars, shown>>

\* the user leaves or overwrites the two fields and clicks Save or Cancel
edit_dialog_close ==
    /\ dialog.kind = "edit"
    /\ dialog.result = "open"
    /\ \E title_value \in RawTitles \cup {dialog.edit_title},
          description_value \in RawDescriptions \cup {dialog.edit_description},
          result \in {"save", "cancel"} :
          dialog' = [dialog EXCEPT !.edit_title = title_value,
                                   !.edit_description = description_value,
                                   !.result = result]
    /\ UNCHANGED <<todos, todo_seq, tasks, task_seq, now, race_vars, shown, notify>>

\* handle_edit after "await dialog"
handle_edit_closed ==
    /\ dialog.kind = "edit"
    /\ dialog.result # "open"
    /\ \E t \in utcnow :
          LET r == HandleEditClosed(todos, dialog.todo_id, dialog.result = "save",
                                    dialog.edit_title, dialog.edit_description,
                                    t, notify) IN
          /\ todos' = r.rows
          /\ now' = IF r.found THEN t ELSE now
          /\ shown' = IF r.found THEN refresh_todos(r.rows) ELSE shown
          /\ notify' = r.notify
    /\ dialog' = NoDialog
    /\ UNCHANGED <<todo_seq, tasks, task_seq, race_vars>>

\* The page's handlers, and delete_todo called for another page session.
PageNext ==
    \/ handle_add
    \/ handle_toggle
    \/ handle_delete
    \/ delete_dialog_submit
    \/ handle_delete_answered
    \/ handle_edit
    \/ edit_dialog_close
    \/ handle_edit_closed
    \/ delete_todo

PageSpec == Init /\ [][PageNext]_vars

\* ================================================================ claims
Range(list) == {list[i] : i \in 1..Len(list)}
Row(rows, id) == CHOOSE r \in rows : r.id = id

\* ---------------------------------------------------------------- C1
\* C1: in every reachable state, whatever the input, create_todo and
\* create_task return an item whose id is a positive integer that no item
\* already in the table has, whose completed flag is false and whose
\* created_at (and updated_at for a Todo) is an instant; the item is in the
\* table afterwards and is the only one with its id.
C1_CreateReturnsFreshItem ==
    /\ \A todo_data \in TodoCreate, t1 \in utcnow : \A t2 \in t1..MaxClock :
          LET r == CreateTodo(todos, todo_seq, todo_data, t1, t2) IN
          /\ r.ret.id \in Nat \ {0}
          /\ r.ret.id \notin ids(todos)
          /\ r.ret \in r.rows
          /\ \A q \in r.rows : q.id = r.ret.id => q = r.ret
          /\ r.ret.completed = FALSE
          /\ r.ret.created_at \in Instants
          /\ r.ret.updated_at \in Instants
    /\ \A task_data \in TaskCreate, t \in utcnow :
          LET r == CreateTask(tasks, task_seq, task_data, t) IN
          /\ r.ret.id \in Nat \ {0}
          /\ r.ret.id \notin ids(tasks)
          /\ r.ret \in r.rows
          /\ \A q \in r.rows : q.id = r.ret.id => q = r.ret
          /\ r.ret.completed = FALSE
          /\ r.ret.created_at \in Instants

\* a second item was created after the first one was completed and deleted,
\* and the second one has been completed since
C1_Witness ==
    /\ ids(todos) = {2}
    /\ \E r \in todos : r.completed /\ r.updated_at > r.created_at

\* ---------------------------------------------------------------- C2
\* C2: every result of get_all_todos holds exactly the stored items, each
\* once, in descending order of created_at; and once three items have been
\* created in sequence and nothing else was called, the result is the third,
\* the second, the first.
C2_ListAllNewestFirst ==
    \A s \in GetAllTodos(todos) :
        /\ Range(s) = todos
        /\ Len(s) = Cardinality(todos)
        /\ \A i, j \in 1..Len(s) : i < j => s[i].created_at >= s[j].created_at
        /\ todo_seq = ScenarioTodos + 1 => [i \in 1..Len(s) |-> s[i].id] = <<3, 2, 1>>

\* ---------------------------------------------------------------- C3
\* C3: in every reachable state an update of an existing id returns the item
\* with exactly the fields of the partial set overwritten: an absent title,
\* description or completed keeps its value, a present one is taken from the
\* input; id and created_at stay, and every other row of the table is the
\* same row as before.
C3_UpdateFrame ==
    /\ \A r0 \in todos, todo_data \in TodoUpdate, t \in utcnow :
          LET r == UpdateTodo(todos, r0.id, todo_data, t) IN
          /\ r.ret # None
          /\ LET new == r.ret[1] IN
             /\ new.title = IF todo_data.title = None THEN r0.title ELSE todo_data.title[1]
             /\ new.description = IF todo_data.description = None
                                  THEN r0.description ELSE todo_data.description
             /\ new.completed = IF todo_data.completed = None
                                THEN r0.completed ELSE todo_data.completed[1]
             /\ new.id = r0.id
             /\ new.created_at = r0.created_at
             /\ new \in r.rows
             /\ r.rows \ {new} = todos \ {r0}
    /\ \A r0 \in tasks, task_update \in TaskUpdate :
          LET r == UpdateTask(tasks, r0.id, task_update) IN
          /\ r.ret # None
          /\ LET new == r.ret[1] IN
             /\ new.title = IF task_update.title = None THEN r0.title ELSE task_update.title[1]
             /\ new.completed = IF task_update.completed = None
                                THEN r0.completed ELSE task_update.completed[1]
             /\ new.id = r0.id
             /\ new.created_at = r0.created_at
             /\ new \in r.rows
             /\ r.rows \ {new} = tasks \ {r0}

\* two Todo rows are stored, one of them updated after its creation to a
\* completed item with a title and a description
C3_Witness ==
    /\ Cardinality(todos) = 2
    /\ \E r \in todos :
          /\ r.updated_at > r.created_at
          /\ r.completed
          /\ r.title = "T1"
          /\ r.description = Some("D1")

\* ---------------------------------------------------------------- C4
\* C4: in every reachable state, toggling an existing item returns it with
\* completed negated, and toggling it again returns and stores it with the
\* completed value it had at first.
C4_ToggleInvolution ==
    /\ \A r0 \in todos, t1 \in utcnow : \A t2 \in t1..MaxClock :
          LET once == ToggleTodoCompletion(todos, r0.id, t1)
              twice == ToggleTodoCompletion(once.rows, r0.id, t2)
          IN /\ once.ret # None
             /\ once.ret[1].completed = ~r0.completed
             /\ Row(once.rows, r0.id).completed = ~r0.completed
             /\ twice.ret # None
             /\ twice.ret[1].completed = r0.completed
             /\ Row(twice.rows, r0.id).completed = r0.completed
    /\ \A r0 \in tasks :
          LET once == ToggleTaskCompletion(tasks, r0.id)
              twice == ToggleTaskCompletion(once.rows, r0.id)
          IN /\ once.ret # None
             /\ once.ret[1].completed = ~r0.completed
             /\ Row(once.rows, r0.id).completed = ~r0.completed
             /\ twice.ret # None
             /\ twice.ret[1].completed = r0.completed
             /\ twice.rows = tasks

\* a completed and a pending Task are stored: a toggle has acted on one
C4_Witness ==
    /\ \E r \in tasks : r.completed
    /\ \E r \in tasks : ~r.completed

\* ---------------------------------------------------------------- C5
\* C5: in every reachable state, delete of a stored id returns true, removes
\* that row and no other, get-by-id on it then returns None and a second
\* delete of it returns false; delete of an id that is not stored returns
\* false and leaves the table as it was.
C5_Delete ==
    /\ \A todo_id \in Ids :
          LET r == DeleteTodo(todos, todo_id) IN
          IF todo_id \in ids(todos)
          THEN /\ r.ret = TRUE
               /\ r.rows = todos \ {Row(todos, todo_id)}
               /\ GetTodo(r.rows, todo_id) = None
               /\ DeleteTodo(r.rows, todo_id) = [rows |-> r.rows, ret |-> FALSE]
          ELSE r = [rows |-> todos, ret |-> FALSE]
    /\ \A task_id \in TaskIds :
          LET r == DeleteTask(tasks, task_id) IN
          IF task_id \in ids(tasks)
          THEN /\ r.ret = TRUE
               /\ r.rows = tasks \ {Row(tasks, task_id)}
               /\ GetTaskById(r.rows, task_id) = None
               /\ DeleteTask(r.rows, task_id) = [rows |-> r.rows, ret |-> FALSE]
          ELSE r = [rows |-> tasks, ret |-> FALSE]

\* the first Todo was deleted and the second is still stored
C5_Witness ==
    /\ todo_seq = 3
    /\ ids(todos) = {2}

\* ---------------------------------------------------------------- C6
\* C6: in every reachable state every result of get_task_stats has total
\* the number of stored tasks, completed the number of completed ones and
\* total = completed + pending; on the empty table it is 0, 0, 0.
C6_Stats ==
    \A st \in GetTaskStats(tasks) :
        /\ st.total = Cardinality(tasks)
        /\ \A task_list \in GetAllTasks(tasks) : st.total = Len(task_list)
        /\ st.completed = Cardinality({r \in tasks : r.completed})
        /\ st.total = st.completed + st.pending
        /\ tasks = {} => st = [total |-> 0, completed |-> 0, pending |-> 0]

\* three Tasks are stored, one of them completed
C6_Witness ==
    /\ Cardinality(tasks) = 3
    /\ Cardinality({r \in tasks : r.completed}) = 1

\* ---------------------------------------------------------------- C7
\* C7: in every reachable state no item is in a result of
\* get_completed_todos and in a result of get_pending_todos, and the items
\* of the two together are the items of get_all_todos.
C7_Partition ==
    \A c \in GetCompletedTodos(todos), p \in GetPendingTodos(todos),
       a \in GetAllTodos(todos) :
        /\ Range(c) \cap Range(p) = {}
        /\ Range(c) \cup Range(p) = Range(a)
        /\ Len(c) + Len(p) = Len(a)

\* a completed and a pending Todo are stored
C7_Witness ==
    /\ \E r \in todos : r.completed
    /\ \E r \in todos : ~r.completed

\* ---------------------------------------------------------------- C8
\* C8: in every reachable state get-by-id, update and toggle-completion of
\* an id that is not stored return None and leave the table as it was.
C8_NotFound ==
    /\ \A todo_id \in Ids \ ids(todos) :
          /\ GetTodo(todos, todo_id) = None
          /\ \A todo_data \in TodoUpdate, t \in utcnow :
                UpdateTodo(todos, todo_id, todo_data, t) = [rows |-> todos, ret |-> None]
          /\ \A t \in utcnow :
                ToggleTodoCompletion(todos, todo_id, t) = [rows |-> todos, ret |-> None]
    /\ \A task_id \in TaskIds \ ids(tasks) :
          /\ GetTaskById(tasks, task_id) = None
          /\ \A task_update \in TaskUpdate :
                UpdateTask(tasks, task_id, task_update) = [rows |-> tasks, ret |-> None]
          /\ ToggleTaskCompletion(tasks, task_id) = [rows |-> tasks, ret |-> None]

\* the first Todo was deleted, the second is stored and the clock has moved
\* on since it was last written
C8_Witness ==
    /\ ids(todos) = {2}
    /\ \E r \in todos : r.updated_at < now

\* ---------------------------------------------------------------- C9
\* C9: no two stored items have the same id, update and toggle-completion
\* return and store the item under the id it had, and an id is never used
\* again: every stored id was handed out before, and a row that appears in
\* a step has an id that was never handed out before that step.
C9_IdsState ==
    /\ \A r, q \in todos : r.id = q.id => r = q
    /\ \A r, q \in tasks : r.id = q.id => r = q
    /\ ids(todos) \subseteq 1..(todo_seq - 1)
    /\ ids(tasks) \subseteq 1..(task_seq - 1)
    /\ \A r0 \in todos, t \in utcnow :
          /\ ids(ToggleTodoCompletion(todos, r0.id, t).rows) = ids(todos)
          /\ ToggleTodoCompletion(todos, r0.id, t).ret[1].id = r0.id
          /\ \A todo_data \in TodoUpdate :
                /\ ids(UpdateTodo(todos, r0.id, todo_data, t).rows) = ids(todos)
                /\ UpdateTodo(todos, r0.id, todo_data, t).ret[1].id = r0.id
    /\ \A r0 \in tasks :
          /\ ids(ToggleTaskCompletion(tasks, r0.id).rows) = ids(tasks)
          /\ ToggleTaskCompletion(tasks, r0.id).ret[1].id = r0.id
          /\ \A task_update \in TaskUpdate :
                /\ ids(UpdateTask(tasks, r0.id, task_update).rows) = ids(tasks)
                /\ UpdateTask(tasks, r0.id, task_update).ret[1].id = r0.id

C9_IdsStep ==
    /\ todo_seq' >= todo_seq
    /\ task_seq' >= task_seq
    /\ \A id \in ids(todos') \ ids(todos) : id >= todo_seq
    /\ \A id \in ids(tasks') \ ids(tasks) : id >= task_seq

\* C9: ids are unique and immutable in every reachable state, and no step
\* brings back an id that was handed out before.
C9_IdsNeverReused == []C9_IdsState /\ [][C9_IdsStep]_vars

\* the first Task was deleted and two Tasks created after that are stored
C9_Witness ==
    /\ task_seq = 4
    /\ ids(tasks) = {2, 3}

\* ---------------------------------------------------------------- C10
\* C10: no step changes the created_at of an item that stays stored, and in
\* every reachable state update and toggle-completion return the item with
\* the created_at it had.
C10_CreatedAtState ==
    /\ \A r0 \in todos, t \in utcnow :
          /\ ToggleTodoCompletion(todos, r0.id, t).ret[1].created_at = r0.created_at
          /\ \A todo_data \in TodoUpdate :
                UpdateTodo(todos, r0.id, todo_data, t).ret[1].created_at = r0.created_at
    /\ \A r0 \in tasks :
          /\ ToggleTaskCompletion(tasks, r0.id).ret[1].created_at = r0.created_at
          /\ \A task_update \in TaskUpdate :
                UpdateTask(tasks, r0.id, task_update).ret[1].created_at = r0.created_at

C10_CreatedAtStep ==
    /\ \A r \in todos, q \in todos' : r.id = q.id => q.created_at = r.created_at
    /\ \A r \in tasks, q \in tasks' : r.id = q.id => q.created_at = r.created_at

\* C10: created_at of a stored item is the same after every step and in
\* every item update and toggle-completion return.
C10_CreatedAtNeverChanges == []C10_CreatedAtState /\ [][C10_CreatedAtStep]_vars

\* a Todo created at the first instant was updated or toggled at a later one
C10_Witness ==
    \E r \in todos : r.created_at = 0 /\ r.updated_at > r.created_at /\ r.completed

\* ---------------------------------------------------------------- C11
\* C11: in every reachable state every Todo has updated_at >= created_at, and
\* no step lowers the updated_at of an item that stays in the table (the clock
\* of the model never goes backwards).
C11_StampsState ==
    \A r \in todos : r.updated_at >= r.created_at

C11_StampsStep ==
    \A r \in todos, q \in todos' : q.id = r.id => q.updated_at >= r.updated_at

C11_UpdatedAtMonotone == []C11_StampsState /\ [][C11_StampsStep]_vars

\* an item created at the first instant was completed at the last one, and
\* another item was created at the last instant
C11_Witness ==
    \E r, q \in todos :
        /\ r.created_at = 0 /\ r.updated_at = MaxClock /\ r.completed
        /\ q.created_at = MaxClock /\ ~q.completed

\* ---------------------------------------------------------------- C12
\* C12: in every reachable state, for every existing item, every partial set
\* (the empty one and one repeating the stored values included) and every
\* instant the clock can give, update_todo and toggle_todo_completion return
\* the item with updated_at set to that instant, and that updated_at is
\* strictly greater than the item's updated_at before the call.
C12_UpdateRefreshesStrictly ==
    \A r0 \in todos, t \in utcnow :
        /\ \A todo_data \in TodoUpdate :
              LET r == UpdateTodo(todos, r0.id, todo_data, t) IN
              /\ r.ret # None
              /\ r.ret[1].updated_at = t
              /\ r.ret[1].updated_at > r0.updated_at
        /\ LET r == ToggleTodoCompletion(todos, r0.id, t) IN
              /\ r.ret # None
              /\ r.ret[1].updated_at = t
              /\ r.ret[1].updated_at > r0.updated_at

\* ---------------------------------------------------------------- C13
\* C13: in every reachable state, for every id and every instant, toggling
\* the completion of a stored id gives the same table and the same returned
\* item as an update whose partial set holds only completed = NOT(stored
\* completed); for an id that is not stored both leave the table alone and
\* return nothing. The same holds for tasks.
C13_ToggleIsUpdate ==
    /\ \A todo_id \in Ids, t \in utcnow :
          LET got == session_get(todos, todo_id) IN
          IF got = None
          THEN /\ ToggleTodoCompletion(todos, todo_id, t) = [rows |-> todos, ret |-> None]
               /\ \A b \in BOOLEAN :
                     UpdateTodo(todos, todo_id,
                                [title |-> None, description |-> None,
                                 completed |-> Some(b)], t)
                        = [rows |-> todos, ret |-> None]
          ELSE ToggleTodoCompletion(todos, todo_id, t)
                  = UpdateTodo(todos, todo_id,
                               [title |-> None, description |-> None,
                                completed |-> Some(~got[1].completed)], t)
    /\ \A task_id \in TaskIds :
          LET got == session_get(tasks, task_id) IN
          IF got = None
          THEN /\ ToggleTaskCompletion(tasks, task_id) = [rows |-> tasks, ret |-> None]
               /\ \A b \in BOOLEAN :
                     UpdateTask(tasks, task_id, [title |-> None, completed |-> Some(b)])
                        = [rows |-> tasks, ret |-> None]
          ELSE ToggleTaskCompletion(tasks, task_id)
                  = UpdateTask(tasks, task_id,
                               [title |-> None, completed |-> Some(~got[1].completed)])

\* the table holds a completed item with a description and a pending one,
\* and one id is not stored
C13_Witness ==
    /\ \E r \in todos : r.completed /\ r.description # None
    /\ \E r \in todos : ~r.completed
    /\ ids(todos) # Ids

\* ---------------------------------------------------------------- C14
\* C14: in every reachable state every result of get_completed_todos holds
\* exactly the items with completed = true, each once, in descending order of
\* updated_at, and every result of get_pending_todos holds exactly the items
\* with completed = false, each once, in descending order of created_at.
C14_CompletedAndPendingLists ==
    /\ \A s \in GetCompletedTodos(todos) :
          /\ Range(s) = {r \in todos : r.completed}
          /\ Len(s) = Cardinality({r \in todos : r.completed})
          /\ \A i, j \in 1..Len(s) : i < j => s[i].updated_at >= s[j].updated_at
    /\ GetCompletedTodos(todos) # {}
    /\ \A s \in GetPendingTodos(todos) :
          /\ Range(s) = {r \in todos : ~r.completed}
          /\ Len(s) = Cardinality({r \in todos : ~r.completed})
          /\ \A i, j \in 1..Len(s) : i < j => s[i].created_at >= s[j].created_at
    /\ GetPendingTodos(todos) # {}

\* two completed items: the one completed last is not the one created last
C14_Witness ==
    \E a, b \in todos :
        /\ a.completed /\ b.completed
        /\ a.id < b.id
        /\ a.updated_at > b.updated_at

\* ---------------------------------------------------------------- C15
\* C15: in every reachable state a create with the title "" succeeds and
\* stores an item whose title is ""; every stored title is a string (never
\* null); and an update whose title is absent, like a toggle, keeps the title.
C15_EmptyTitleAccepted ==
    /\ \A task_data \in TaskCreate, t \in utcnow :
          LET r == CreateTask(tasks, task_seq, task_data, t) IN
          task_data.title = "" => r.ret \in r.rows /\ r.ret.title = ""
    /\ \A todo_data \in TodoCreate, t \in utcnow :
          LET r == CreateTodo(todos, todo_seq, todo_data, t, t) IN
          todo_data.title = "" => r.ret \in r.rows /\ r.ret.title = ""
    /\ \A r \in tasks : r.title \in STRING
    /\ \A r \in todos : r.title \in STRING
    /\ \A r0 \in tasks, task_update \in TaskUpdate :
          task_update.title = None =>
             /\ UpdateTask(tasks, r0.id, task_update).ret[1].title = r0.title
             /\ ToggleTaskCompletion(tasks, r0.id).ret[1].title = r0.title
    /\ \A r0 \in todos, todo_data \in TodoUpdate, t \in utcnow :
          todo_data.title = None =>
             /\ UpdateTodo(todos, r0.id, todo_data, t).ret[1].title = r0.title
             /\ ToggleTodoCompletion(todos, r0.id, t).ret[1].title = r0.title

\* a task with the empty title is stored and has been completed since
C15_Witness ==
    \E r \in tasks : r.title = "" /\ r.completed

\* ---------------------------------------------------------------- C16
\* C16: once "Task 1", "Task 2" and "Task 3" (ids 1, 2, 3) have been created
\* in this order and exactly "Task 1" and "Task 3" are completed after the
\* toggles, get_task_stats gives total 3, completed 2, pending 1, and every
\* result of get_all_tasks is the third, the second, the first task, so that
\* its middle element is "Task 2".
C16_ToggleKeepsListOrder ==
    (/\ task_seq = ScenarioTasks + 1
     /\ {r.id : r \in {q \in tasks : q.completed}} = {1, 3})
    => /\ GetTaskStats(tasks) = {[total |-> 3, completed |-> 2, pending |-> 1]}
       /\ \A s \in GetAllTasks(tasks) :
             /\ [i \in 1..Len(s) |-> s[i].id] = <<3, 2, 1>>
             /\ s[2].id = 2

\* ---------------------------------------------------------------- C17
\* the session's call gave the column a value other than the one it had read
Changed(s, c) == sessions[s].todo[1][c] # sessions[s].loaded[1][c]

\* C17 as stated: once two sessions have committed an update or a toggle of
\* the same id, neither call has reported an error, and every field that the
\* call committed last has assigned is stored with the value it assigned.
C17_LastCommitWins ==
    /\ \A s \in Sessions : ~sessions[s].error
    /\ Len(commits) = 2 =>
          LET last == commits[2]
              stored == Row(todos, sessions[last].todo[1].id) IN
          \A c \in sessions[last].assigned : stored[c] = sessions[last].todo[1][c]

\* C17 amended: neither call reports an error, and once both sessions have
\* committed on the same id every column holds the value of the last commit
\* whose call changed it from what that call had read: the last commit's
\* value where the last call changed the column, else the first commit's
\* value where the first call changed it, else the value both had read. An
\* assignment that repeats the value read is not written, so it does not
\* undo the change the other session committed before.
C17_LastChangeWins ==
    /\ \A s \in Sessions : ~sessions[s].error
    /\ Len(commits) = 2 =>
          LET first == commits[1]
              last == commits[2]
              stored == Row(todos, sessions[last].todo[1].id) IN
          /\ sessions[first].todo[1].id = sessions[last].todo[1].id
          /\ \A c \in Columns :
                stored[c] = IF Changed(last, c) THEN sessions[last].todo[1][c]
                            ELSE IF Changed(first, c) THEN sessions[first].todo[1][c]
                            ELSE sessions[first].loaded[1][c]

\* both sessions read the row before either committed; the first commit
\* changed the title and the completed flag, the last call assigned the
\* title it had read and changed the completed flag as well
C17_Witness ==
    /\ Len(commits) = 2
    /\ sessions[commits[1]].loaded = sessions[commits[2]].loaded
    /\ Changed(commits[1], "title") /\ Changed(commits[1], "completed")
    /\ "title" \in sessions[commits[2]].assigned /\ ~Changed(commits[2], "title")
    /\ Changed(commits[2], "completed")
    /\ \A s \in Sessions : sessions[s].pc = "returned"

\* ---------------------------------------------------------------- C18
\* a value that is empty or holds white space only
Blank(value) == \A i \in 1..Len(value) : value[i] = " "

\* C18: in every state the page can reach, handle_add with a title that is
\* blank (empty after trimming) shows "Please enter a task title", calls no
\* create and leaves the table alone, and with any other title it creates an
\* item whose title is not blank; handle_edit saved with a blank title shows
\* "Title cannot be empty", calls no update and leaves the table alone; so
\* no item the page has stored has a blank title.
C18_BlankTitleNeverPassed ==
    /\ \A title_value \in RawTitles, description_value \in RawDescriptions, t \in utcnow :
          LET r == HandleAdd(todos, todo_seq, title_value, description_value, t, t) IN
          IF Blank(title_value)
          THEN /\ ~r.called
               /\ r.rows = todos
               /\ r.notify = "Please enter a task title"
          ELSE /\ r.called
               /\ \A q \in r.rows : ~Blank(chars(q.title))
    /\ \A todo_id \in Ids, title_value \in RawTitles,
          description_value \in RawDescriptions, t \in utcnow :
          LET r == HandleEditClosed(todos, todo_id, TRUE, title_value,
                                    description_value, t, notify) IN
          IF Blank(title_value)
          THEN /\ ~r.called
               /\ r.rows = todos
               /\ r.notify = "Title cannot be empty"
          ELSE /\ r.called
               /\ \A q \in r.rows : ~Blank(chars(q.title))
    /\ \A q \in todos : ~Blank(chars(q.title))

\* an item is stored, and the last thing the page did was to refuse a blank
\* title in handle_add
C18_Witness ==
    /\ todos # {}
    /\ notify = "Please enter a task title"

\* ---------------------------------------------------------------- C19
\* C19: the step of handle_delete that opens the confirmation dialog, and the
\* step that answers it, leave the table and the notification alone; the
\* step after the answer removes the item and shows "Task deleted
\* successfully!" only if the answer is "Yes" and the item is stored, shows
\* "Task not found" and leaves the table alone if the answer is "Yes" and the
\* item is gone, and leaves table and notification alone for any other answer.
C19_DeleteStep ==
    /\ (dialog.kind # "delete" /\ dialog'.kind = "delete")
          => (todos' = todos /\ notify' = notify)
    /\ (dialog.kind = "delete" /\ dialog'.kind = "delete" /\ dialog' # dialog)
          => (todos' = todos /\ notify' = notify)
    /\ (dialog.kind = "delete" /\ dialog'.kind # "delete")
          => IF dialog.result = "Yes"
             THEN IF dialog.todo_id \in ids(todos)
                  THEN /\ todos' = {r \in todos : r.id # dialog.todo_id}
                       /\ notify' = "Task deleted successfully!"
                  ELSE /\ todos' = todos
                       /\ notify' = "Task not found"
             ELSE /\ todos' = todos
                  /\ notify' = notify

C19_DeleteOnlyAfterYes == [][C19_DeleteStep]_vars

\* the dialog was answered "Yes" for an item that another page session has
\* deleted while the dialog was open
C19_Witness ==
    /\ dialog.kind = "delete"
    /\ dialog.result = "Yes"
    /\ dialog.todo_id \notin ids(todos)
    /\ dialog.todo_id \in shown

\* ---------------------------------------------------------------- C20
\* C20: in every state the page can reach, an update_todo whose partial set
\* has no description, and a toggle, keep the stored description, and no
\* update_todo whatever its partial set makes a stored description null;
\* saving the edit dialog with a blank description and a title that is not
\* blank calls update_todo and keeps the item's description; and no step
\* makes the description of an item null that was not null before.
C20_DescriptionState ==
    /\ \A r0 \in todos, todo_data \in TodoUpdate, t \in utcnow :
          LET new == UpdateTodo(todos, r0.id, todo_data, t).ret[1] IN
          /\ todo_data.description = None => new.description = r0.description
          /\ r0.description # None => new.description # None
    /\ \A r0 \in todos, t \in utcnow :
          ToggleTodoCompletion(todos, r0.id, t).ret[1].description = r0.description
    /\ \A r0 \in todos, title_value \in RawTitles,
          description_value \in RawDescriptions, t \in utcnow :
          (Blank(description_value) /\ ~Blank(title_value)) =>
             LET r == HandleEditClosed(todos, r0.id, TRUE, title_value,
                                       description_value, t, notify) IN
             /\ r.called
             /\ Row(r.rows, r0.id).description = r0.description

C20_DescriptionStep ==
    \A r \in todos, q \in todos' :
        (q.id = r.id /\ r.description # None) => q.description # None

C20_DescriptionNeverReset == []C20_DescriptionState /\ [][C20_DescriptionStep]_vars

\* an item with a description has been saved from the edit dialog
C20_Witness ==
    /\ notify = "Task updated successfully!"
    /\ \E r \in todos : r.description # None /\ r.updated_at > r.created_at

\* ---------------------------------------------------------------- C21
\* C21: in every reachable state and for every input, a create adds exactly
\* the one new id (and changes no other row), a delete of a stored id removes
\* exactly that row and a delete of any other id changes nothing, and update
\* and toggle-completion leave the id set as it is; for an id that is not
\* stored (one deleted earlier included) update and toggle, also when called
\* by handle_edit or handle_toggle of the page, leave the table as it is.
C21_IdSetState ==
    /\ \A todo_data \in TodoCreate, t1 \in utcnow : \A t2 \in t1..MaxClock :
          LET r == CreateTodo(todos, todo_seq, todo_data, t1, t2) IN
          /\ r.ret.id \notin ids(todos)
          /\ ids(r.rows) = ids(todos) \cup {r.ret.id}
          /\ r.rows \ {r.ret} = todos
    /\ \A task_data \in TaskCreate, t \in utcnow :
          LET r == CreateTask(tasks, task_seq, task_data, t) IN
          /\ r.ret.id \notin ids(tasks)
          /\ ids(r.rows) = ids(tasks) \cup {r.ret.id}
          /\ r.rows \ {r.ret} = tasks
    /\ \A todo_id \in Ids :
          LET r == DeleteTodo(todos, todo_id) IN
          /\ r.ret = (todo_id \in ids(todos))
          /\ r.rows = {q \in todos : q.id # todo_id}
    /\ \A task_id \in TaskIds :
          LET r == DeleteTask(tasks, task_id) IN
          /\ r.ret = (task_id \in ids(tasks))
          /\ r.rows = {q \in tasks : q.id # task_id}
    /\ \A todo_id \in Ids, t \in utcnow :
          /\ ids(ToggleTodoCompletion(todos, todo_id, t).rows) = ids(todos)
          /\ \A todo_data \in TodoUpdate :
                ids(UpdateTodo(todos, todo_id, todo_data, t).rows) = ids(todos)
          /\ todo_id \notin ids(todos) =>
                /\ ToggleTodoCompletion(todos, todo_id, t).rows = todos
                /\ HandleToggle(todos, todo_id, t).rows = todos
                /\ \A todo_data \in TodoUpdate :
                      UpdateTodo(todos, todo_id, todo_data, t).rows = todos
                /\ \A title_value \in RawTitles, description_value \in RawDescriptions :
                      HandleEditClosed(todos, todo_id, TRUE, title_value,
                                       description_value, t, notify).rows = todos
    /\ \A task_id \in TaskIds :
          /\ ids(ToggleTaskCompletion(tasks, task_id).rows) = ids(tasks)
          /\ \A task_update \in TaskUpdate :
                ids(UpdateTask(tasks, task_id, task_update).rows) = ids(tasks)
          /\ task_id \notin ids(tasks) =>
                /\ ToggleTaskCompletion(tasks, task_id).rows = tasks
                /\ \A task_update \in TaskUpdate :
                      UpdateTask(tasks, task_id, task_update).rows = tasks

\* a step that changes the id set of a table either adds the id the sequence
\* hands out, and advances the sequence, or removes one stored id and its row
\* while the sequence stays
C21_IdSetStep ==
    /\ ids(todos') # ids(todos) =>
          \/ /\ ids(todos') = ids(todos) \cup {todo_seq}
             /\ todo_seq' = autoincrement(todo_seq)
          \/ /\ \E id \in ids(todos) : todos' = {q \in todos : q.id # id}
             /\ todo_seq' = todo_seq
    /\ ids(tasks') # ids(tasks) =>
          \/ /\ ids(tasks') = ids(tasks) \cup {task_seq}
             /\ task_seq' = autoincrement(task_seq)
          \/ /\ \E id \in ids(tasks) : tasks' = {q \in tasks : q.id # id}
             /\ task_seq' = task_seq

C21_IdSetChangesOnlyByCreateAndDelete == []C21_IdSetState /\ [][C21_IdSetStep]_vars

\* the second item was deleted; the first one is stored and was updated or
\* toggled after its creation
C21_Witness ==
    /\ todo_seq = 3
    /\ ids(todos) = {1}
    /\ \E r \in todos : r.updated_at > r.created_at /\ r.title = "T1"

====
